---- MODULE Spec2Model ----
(***************************************************************************)
(* cargo-licenses: resolution of the direct dependencies of a manifest to  *)
(* the newest matching crates.io version and its license (fetch.rs), and   *)
(* the license policy check (check.rs).                                    *)
(*                                                                         *)
(* A Rust String is modelled as the sequence of its characters, each       *)
(* character a one-character TLA+ string, so that replace, split, trim,    *)
(* parse and format are computed character by character.                   *)
(***************************************************************************)
EXTENDS Integers, Sequences, FiniteSets, TLC

VARIABLES
    pc,          \* position of the run
    deps,        \* the Vec<Dep> handed to build_license_report
    registry,    \* registry[i]: what crates.io answers to the request of task i
    futures,     \* FuturesUnordered: the indices of the tasks not yet yielded
    results,     \* the Vec<LicenseReport> being collected
    built,       \* the value build_license_report returned
    denyIn,      \* the --deny strings of the check command
    allowIn,     \* the --allow strings of the check command
    deny,        \* the deny slice handed to check_licenses
    allow,       \* the allow slice handed to check_licenses
    violations,  \* the violations vector of check_licenses
    checked,     \* the value check_licenses returned
    outcome,     \* how the process ended: mode, exit code, error stream, file
    expr,        \* argument of a single parse_license_expression call
    tokens,      \* its return value
    query,       \* arguments and registry answer of a single fetch_best_match call
    fetched      \* its return value

vars == <<pc, deps, registry, futures, results, built, denyIn, allowIn,
          deny, allow, violations, checked, outcome, expr, tokens, query,
          fetched>>

----------------------------------------------------------------------------
(* Bounds of the model.                                                    *)

MaxPieces == 3

MaxVersions == 3

MaxDeps == 2

----------------------------------------------------------------------------
(* Generic helpers on sequences.                                           *)

Range(s) == {s[i] : i \in 1..Len(s)}

SeqsUpTo(S, n) == UNION {[1..k -> S] : k \in 0..n}

RECURSIVE Flatten(_)
Flatten(ss) == IF ss = <<>> THEN <<>> ELSE Head(ss) \o Flatten(Tail(ss))

SetMin(S) == CHOOSE x \in S : \A y \in S : x <= y

SetMax(S) == CHOOSE x \in S : \A y \in S : y <= x

----------------------------------------------------------------------------
(* String literals of the program.                                         *)

S_OR == <<" ", "O", "R", " ">>

S_or == <<" ", "o", "r", " ">>

S_AND == <<" ", "A", "N", "D", " ">>

S_and == <<" ", "a", "n", "d", " ">>

S_BAR == <<"|">>

S_MIT == <<"M", "I", "T">>

S_APACHE == <<"A", "p", "a", "c", "h", "e", "-", "2", ".", "0">>

S_GPL == <<"G", "P", "L", "-", "3", ".", "0">>

----------------------------------------------------------------------------
(* check.rs: the license expression tokenizer.                             *)

\* the positions at which pat occurs in s
Occurrences(s, pat) ==
    {i \in 1..(Len(s) - Len(pat) + 1) :
        \A j \in 1..Len(pat) : s[i + j - 1] = pat[j]}

\* str::replace, broken: only the first occurrence is replaced
ReplaceFirstOnly(s, from, to) ==
    IF Occurrences(s, from) = {} THEN s
    ELSE LET i == SetMin(Occurrences(s, from))
         IN  SubSeq(s, 1, i - 1) \o to \o SubSeq(s, i + Len(from), Len(s))

\* str::replace(from, to): the text up to the next match is copied, then
\* to, and the search goes on behind the match
RECURSIVE Replace(_, _, _)
Replace(s, from, to) ==
    IF Occurrences(s, from) = {} THEN s
    ELSE LET i == SetMin(Occurrences(s, from))
         IN  SubSeq(s, 1, i - 1) \o to
                \o Replace(SubSeq(s, i + Len(from), Len(s)), from, to)

\* str::split(c): the pieces between the occurrences of c, empty ones included
RECURSIVE Split(_, _)
Split(s, c) ==
    IF \A i \in 1..Len(s) : s[i] # c THEN <<s>>
    ELSE LET i == SetMin({j \in 1..Len(s) : s[j] = c})
         IN  <<SubSeq(s, 1, i - 1)>> \o Split(SubSeq(s, i + 1, Len(s)), c)

\* char::is_whitespace, on the characters of the model
IsWhitespace(c) == c \in {" ", "\t", "\n", "\r"}

\* the closure given to trim_matches
IsTrimChar(c) == IsWhitespace(c) \/ c = "(" \/ c = ")"

RECURSIVE TrimStart(_)
TrimStart(s) ==
    IF s # <<>> /\ IsTrimChar(Head(s)) THEN TrimStart(Tail(s)) ELSE s

RECURSIVE TrimEnd(_)
TrimEnd(s) ==
    IF s # <<>> /\ IsTrimChar(s[Len(s)])
    THEN TrimEnd(SubSeq(s, 1, Len(s) - 1)) ELSE s

\* str::trim_matches: strips the matching characters from both ends
TrimMatches(s) == TrimEnd(TrimStart(s))

RECURSIVE MapTrim(_)
MapTrim(ps) ==
    IF ps = <<>> THEN <<>> ELSE <<TrimMatches(Head(ps))>> \o MapTrim(Tail(ps))

NonEmpty(s) == s # <<>>

parse_license_expression(license_str) ==
    LET normalized ==
            Replace(Replace(Replace(Replace(license_str,
                S_OR, S_BAR), S_or, S_BAR), S_AND, S_BAR), S_and, S_BAR)
    IN  SelectSeq(MapTrim(Split(normalized, "|")), NonEmpty)

\* expand_user_input, broken: the entries are taken as they are
ExpandVerbatim(license_list) == license_list

RECURSIVE expand_user_input(_)
expand_user_input(license_list) ==
    IF license_list = <<>> THEN <<>>
    ELSE parse_license_expression(Head(license_list))
            \o expand_user_input(Tail(license_list))

----------------------------------------------------------------------------
(* The semver crate, as far as fetch.rs uses it: Version::parse,           *)
(* VersionReq::parse, VersionReq::matches, Version::cmp and the Display of *)
(* Version. Versions are MAJOR.MINOR.PATCH with an optional pre-release of *)
(* one identifier; requirements are comma-separated comparators over full  *)
(* or partial versions, or "*". Build metadata is outside the model.       *)

S_unspecified == <<"u", "n", "s", "p", "e", "c", "i", "f", "i", "e", "d">>

S_AnyVersion == <<">", "=", "0">>

AsciiOrder ==
    <<"-", "0", "1", "2", "3", "4", "5", "6", "7", "8", "9", "A", "B", "C",
      "D", "E", "F", "G", "H", "I", "J", "K", "L", "M", "N", "O", "P", "Q",
      "R", "S", "T", "U", "V", "W", "X", "Y", "Z", "a", "b", "c", "d", "e",
      "f", "g", "h", "i", "j", "k", "l", "m", "n", "o", "p", "q", "r", "s",
      "t", "u", "v", "w", "x", "y", "z">>

DigitChars == <<"0", "1", "2", "3", "4", "5", "6", "7", "8", "9">>

IsDigit(c) == c \in Range(DigitChars)

IsIdentChar(c) == c \in Range(AsciiOrder)

CharRank(c) == CHOOSE i \in 1..Len(AsciiOrder) : AsciiOrder[i] = c

DigitVal(c) == (CHOOSE i \in 1..Len(DigitChars) : DigitChars[i] = c) - 1

\* a numeric identifier: digits, without a leading zero
IsNumeric(s) ==
    /\ s # <<>>
    /\ \A i \in 1..Len(s) : IsDigit(s[i])
    /\ Len(s) > 1 => s[1] # "0"

RECURSIVE NumVal(_)
NumVal(s) ==
    IF s = <<>> THEN 0
    ELSE NumVal(SubSeq(s, 1, Len(s) - 1)) * 10 + DigitVal(s[Len(s)])

RECURSIVE NumStr(_)
NumStr(n) ==
    IF n < 10 THEN <<DigitChars[n + 1]>>
    ELSE NumStr(n \div 10) \o <<DigitChars[(n % 10) + 1]>>

AllDigits(s) == \A i \in 1..Len(s) : IsDigit(s[i])

\* a pre-release identifier
IsPrerelease(s) ==
    /\ s # <<>>
    /\ \A i \in 1..Len(s) : IsIdentChar(s[i])
    /\ AllDigits(s) => IsNumeric(s)

FirstIndex(s, c) ==
    IF \A i \in 1..Len(s) : s[i] # c THEN 0
    ELSE SetMin({i \in 1..Len(s) : s[i] = c})

\* the numeric part of a version text, and its pre-release part
CorePart(text) ==
    IF FirstIndex(text, "-") = 0 THEN text
    ELSE SubSeq(text, 1, FirstIndex(text, "-") - 1)

PrePart(text) ==
    IF FirstIndex(text, "-") = 0 THEN <<>>
    ELSE SubSeq(text, FirstIndex(text, "-") + 1, Len(text))

\* Version::parse: <<v>> for Ok(v), <<>> for Err
ParseVersion(text) ==
    LET parts == Split(CorePart(text), ".")
    IN  IF /\ Len(parts) = 3
           /\ \A i \in 1..3 : IsNumeric(parts[i])
           /\ FirstIndex(text, "-") # 0 => IsPrerelease(PrePart(text))
        THEN <<[major |-> NumVal(parts[1]), minor |-> NumVal(parts[2]),
                patch |-> NumVal(parts[3]), pre |-> PrePart(text)]>>
        ELSE <<>>

\* <Version as Display>::fmt
FormatVersion(v) ==
    NumStr(v.major) \o <<".">> \o NumStr(v.minor) \o <<".">> \o NumStr(v.patch)
        \o (IF v.pre = <<>> THEN <<>> ELSE <<"-">> \o v.pre)

RECURSIVE LexCompare(_, _)
LexCompare(a, b) ==
    IF a = <<>> /\ b = <<>> THEN 0
    ELSE IF a = <<>> THEN -1
    ELSE IF b = <<>> THEN 1
    ELSE IF CharRank(Head(a)) < CharRank(Head(b)) THEN -1
    ELSE IF CharRank(Head(a)) > CharRank(Head(b)) THEN 1
    ELSE LexCompare(Tail(a), Tail(b))

IntCompare(a, b) == IF a < b THEN -1 ELSE IF a > b THEN 1 ELSE 0

\* Prerelease::cmp: no pre-release is greater than any pre-release, a
\* numeric identifier is less than an alphanumeric one
ComparePre(a, b) ==
    IF a = <<>> /\ b = <<>> THEN 0
    ELSE IF a = <<>> THEN 1
    ELSE IF b = <<>> THEN -1
    ELSE IF AllDigits(a) /\ AllDigits(b) THEN IntCompare(NumVal(a), NumVal(b))
    ELSE IF AllDigits(a) THEN -1
    ELSE IF AllDigits(b) THEN 1
    ELSE LexCompare(a, b)

\* Version::cmp
CompareVersion(a, b) ==
    IF a.major # b.major THEN IntCompare(a.major, b.major)
    ELSE IF a.minor # b.minor THEN IntCompare(a.minor, b.minor)
    ELSE IF a.patch # b.patch THEN IntCompare(a.patch, b.patch)
    ELSE ComparePre(a.pre, b.pre)

RECURSIVE TrimSpaces(_)
TrimSpaces(s) ==
    IF s # <<>> /\ Head(s) = " " THEN TrimSpaces(Tail(s))
    ELSE IF s # <<>> /\ s[Len(s)] = " "
         THEN TrimSpaces(SubSeq(s, 1, Len(s) - 1))
         ELSE s

HasPrefix(s, p) == Len(s) >= Len(p) /\ SubSeq(s, 1, Len(p)) = p

OpOf(t) ==
    IF HasPrefix(t, <<">", "=">>) THEN "GreaterEq"
    ELSE IF HasPrefix(t, <<"<", "=">>) THEN "LessEq"
    ELSE IF HasPrefix(t, <<">">>) THEN "Greater"
    ELSE IF HasPrefix(t, <<"<">>) THEN "Less"
    ELSE IF HasPrefix(t, <<"=">>) THEN "Exact"
    ELSE IF HasPrefix(t, <<"~">>) THEN "Tilde"
    ELSE "Caret"

OpLen(t) ==
    IF HasPrefix(t, <<">", "=">>) \/ HasPrefix(t, <<"<", "=">>) THEN 2
    ELSE IF \/ HasPrefix(t, <<">">>) \/ HasPrefix(t, <<"<">>)
            \/ HasPrefix(t, <<"=">>) \/ HasPrefix(t, <<"~">>)
            \/ HasPrefix(t, <<"^">>) THEN 1
    ELSE 0

\* one comparator: <<c>> for Ok(c), <<>> for Err; a missing minor or patch
\* is <<>>
ParseComparator(text) ==
    LET t     == TrimSpaces(text)
        rest  == TrimSpaces(SubSeq(t, OpLen(t) + 1, Len(t)))
        parts == Split(CorePart(rest), ".")
    IN  IF /\ Len(parts) \in 1..3
           /\ \A i \in 1..Len(parts) : IsNumeric(parts[i])
           /\ FirstIndex(rest, "-") # 0 =>
                    Len(parts) = 3 /\ IsPrerelease(PrePart(rest))
        THEN <<[op    |-> OpOf(t),
                major |-> NumVal(parts[1]),
                minor |-> IF Len(parts) >= 2 THEN <<NumVal(parts[2])>> ELSE <<>>,
                patch |-> IF Len(parts) = 3 THEN <<NumVal(parts[3])>> ELSE <<>>,
                pre   |-> PrePart(rest)]>>
        ELSE <<>>

\* VersionReq::parse: <<comparators>> for Ok, <<>> for Err
ParseReq(text) ==
    IF TrimSpaces(text) = <<"*">> THEN << <<>> >>
    ELSE LET cs == Split(text, ",")
         IN  IF \A i \in 1..Len(cs) : ParseComparator(cs[i]) # <<>>
             THEN <<[i \in 1..Len(cs) |-> ParseComparator(cs[i])[1]]>>
             ELSE <<>>

MatchesExact(cmp, ver) ==
    /\ ver.major = cmp.major
    /\ cmp.minor # <<>> => ver.minor = cmp.minor[1]
    /\ cmp.patch # <<>> => ver.patch = cmp.patch[1]
    /\ ver.pre = cmp.pre

MatchesGreater(cmp, ver) ==
    IF ver.major # cmp.major THEN ver.major > cmp.major
    ELSE IF cmp.minor = <<>> THEN FALSE
    ELSE IF ver.minor # cmp.minor[1] THEN ver.minor > cmp.minor[1]
    ELSE IF cmp.patch = <<>> THEN FALSE
    ELSE IF ver.patch # cmp.patch[1] THEN ver.patch > cmp.patch[1]
    ELSE ComparePre(ver.pre, cmp.pre) > 0

MatchesLess(cmp, ver) ==
    IF ver.major # cmp.major THEN ver.major < cmp.major
    ELSE IF cmp.minor = <<>> THEN FALSE
    ELSE IF ver.minor # cmp.minor[1] THEN ver.minor < cmp.minor[1]
    ELSE IF cmp.patch = <<>> THEN FALSE
    ELSE IF ver.patch # cmp.patch[1] THEN ver.patch < cmp.patch[1]
    ELSE ComparePre(ver.pre, cmp.pre) < 0

MatchesTilde(cmp, ver) ==
    IF ver.major # cmp.major THEN FALSE
    ELSE IF cmp.minor # <<>> /\ ver.minor # cmp.minor[1] THEN FALSE
    ELSE IF cmp.patch # <<>> /\ ver.patch # cmp.patch[1]
         THEN ver.patch > cmp.patch[1]
    ELSE ComparePre(ver.pre, cmp.pre) >= 0

MatchesCaret(cmp, ver) ==
    IF ver.major # cmp.major THEN FALSE
    ELSE IF cmp.minor = <<>> THEN TRUE
    ELSE IF cmp.patch = <<>>
         THEN IF cmp.major > 0 THEN ver.minor >= cmp.minor[1]
              ELSE ver.minor = cmp.minor[1]
    ELSE IF cmp.major > 0 /\ ver.minor # cmp.minor[1]
         THEN ver.minor > cmp.minor[1]
    ELSE IF cmp.major > 0 /\ ver.patch # cmp.patch[1]
         THEN ver.patch > cmp.patch[1]
    ELSE IF cmp.major = 0 /\ cmp.minor[1] > 0 /\ ver.minor # cmp.minor[1]
         THEN FALSE
    ELSE IF cmp.major = 0 /\ cmp.minor[1] > 0 /\ ver.patch # cmp.patch[1]
         THEN ver.patch > cmp.patch[1]
    ELSE IF cmp.major = 0 /\ cmp.minor[1] = 0
            /\ (ver.minor # cmp.minor[1] \/ ver.patch # cmp.patch[1])
         THEN FALSE
    ELSE ComparePre(ver.pre, cmp.pre) >= 0

MatchesComparator(cmp, ver) ==
    CASE cmp.op = "Exact"     -> MatchesExact(cmp, ver)
      [] cmp.op = "Greater"   -> MatchesGreater(cmp, ver)
      [] cmp.op = "GreaterEq" -> MatchesExact(cmp, ver) \/ MatchesGreater(cmp, ver)
      [] cmp.op = "Less"      -> MatchesLess(cmp, ver)
      [] cmp.op = "LessEq"    -> MatchesExact(cmp, ver) \/ MatchesLess(cmp, ver)
      [] cmp.op = "Tilde"     -> MatchesTilde(cmp, ver)
      [] cmp.op = "Caret"     -> MatchesCaret(cmp, ver)

PreIsCompatible(cmp, ver) ==
    /\ cmp.major = ver.major
    /\ cmp.minor = <<ver.minor>>
    /\ cmp.patch = <<ver.patch>>
    /\ cmp.pre # <<>>

\* VersionReq::matches: every comparator matches, and a pre-release version
\* needs a comparator of the same major.minor.patch with a pre-release
ReqMatches(req, ver) ==
    /\ \A i \in 1..Len(req) : MatchesComparator(req[i], ver)
    /\ ver.pre # <<>> => \E i \in 1..Len(req) : PreIsCompatible(req[i], ver)

----------------------------------------------------------------------------
(* fetch.rs: fetch_best_match.                                             *)
(*                                                                         *)
(* What crates.io answers to one request is a record: send is FALSE when   *)
(* the transport fails, status is the HTTP status code, body is <<>> when  *)
(* the body is not the expected JSON and <<versions>> otherwise, versions  *)
(* being the sequence of [num, license] entries, license <<>> for null.    *)

S_FetchFailed ==
    <<"F", "a", "i", "l", "e", "d", " ", "t", "o", " ", "f", "e", "t", "c",
      "h", " ", "c", "r", "a", "t", "e", "s", ".", "i", "o", " ", "f", "o",
      "r", " ", "c", "r", "a", "t", "e", "=">>

S_StatusFailed ==
    <<"c", "r", "a", "t", "e", "s", ".", "i", "o", " ", "r", "e", "t", "u",
      "r", "n", "e", "d", " ", "s", "t", "a", "t", "u", "s", " ">>

S_JsonFailed ==
    <<"F", "a", "i", "l", "e", "d", " ", "t", "o", " ", "p", "a", "r", "s",
      "e", " ", "J", "S", "O", "N", " ", "f", "o", "r", " ", "c", "r", "a",
      "t", "e", "=">>

S_SemverFailed ==
    <<"S", "e", "m", "v", "e", "r", " ", "p", "a", "r", "s", "e", " ", "e",
      "r", "r", "o", "r", ":", " ">>

S_ConstraintOpen ==
    <<" ", "(", "c", "o", "n", "s", "t", "r", "a", "i", "n", "t", "=">>

S_NoMatch ==
    <<"N", "o", " ", "c", "r", "a", "t", "e", "s", ".", "i", "o", " ", "v",
      "e", "r", "s", "i", "o", "n", "s", " ", "m", "a", "t", "c", "h", "e",
      "d", " ", "c", "o", "n", "s", "t", "r", "a", "i", "n", "t", "=">>

\* the Display of the semver parse error; the crate's wording is not
\* modelled, only that it is some text
S_SemverError ==
    <<"u", "n", "e", "x", "p", "e", "c", "t", "e", "d", " ", "c", "h", "a",
      "r", "a", "c", "t", "e", "r", " ", "i", "n", " ", "v", "e", "r", "s",
      "i", "o", "n", " ", "r", "e", "q", "u", "i", "r", "e", "m", "e", "n",
      "t">>

\* StatusCode::is_success
IsSuccess(code) == code >= 200 /\ code <= 299

\* <StatusCode as Display>::fmt: the code and its canonical reason
StatusDisplay(code) ==
    NumStr(code) \o <<" ">> \o
        (CASE code = 200 -> <<"O", "K">>
           [] code = 404 -> <<"N", "o", "t", " ", "F", "o", "u", "n", "d">>
           [] OTHER -> <<"<", "u", "n", "k", "n", "o", "w", "n", " ", "s",
                         "t", "a", "t", "u", "s", " ", "c", "o", "d", "e",
                         ">">>)

Ok(version, license) ==
    [ok |-> TRUE, version |-> version, license |-> license, err |-> <<>>]

Err(message) ==
    [ok |-> FALSE, version |-> <<>>, license |-> <<>>, err |-> message]

\* the filter_map of fetch_best_match, broken: the constraint is not applied
RECURSIVE MatchesIgnoringReq(_, _)
MatchesIgnoringReq(versions, req) ==
    IF versions = <<>> THEN <<>>
    ELSE LET cv == Head(versions)
             v  == ParseVersion(cv.num)
         IN  (IF v # <<>> THEN <<[v |-> v[1], license |-> cv.license]>>
              ELSE <<>>)
                \o MatchesIgnoringReq(Tail(versions), req)

\* the filter_map and collect of fetch_best_match: the entries whose num
\* parses and satisfies req, in registry order
RECURSIVE Matches(_, _)
Matches(versions, req) ==
    IF versions = <<>> THEN <<>>
    ELSE LET cv == Head(versions)
             v  == ParseVersion(cv.num)
         IN  (IF v # <<>> /\ ReqMatches(req, v[1])
              THEN <<[v |-> v[1], license |-> cv.license]>>
              ELSE <<>>)
                \o Matches(Tail(versions), req)

\* where a stable sort by |a, b| b.0.cmp(&a.0) puts x in a sorted prefix
RECURSIVE InsertDescending(_, _)
InsertDescending(sorted, x) ==
    IF sorted = <<>> THEN <<x>>
    ELSE IF CompareVersion(x.v, Head(sorted).v) > 0 THEN <<x>> \o sorted
    ELSE <<Head(sorted)>> \o InsertDescending(Tail(sorted), x)

RECURSIVE InsertAscending(_, _)
InsertAscending(sorted, x) ==
    IF sorted = <<>> THEN <<x>>
    ELSE IF CompareVersion(x.v, Head(sorted).v) < 0 THEN <<x>> \o sorted
    ELSE <<Head(sorted)>> \o InsertAscending(Tail(sorted), x)

\* the sort, broken: ascending, |a, b| a.0.cmp(&b.0)
RECURSIVE SortAscending(_)
SortAscending(ms) ==
    IF ms = <<>> THEN <<>>
    ELSE InsertAscending(SortAscending(SubSeq(ms, 1, Len(ms) - 1)), ms[Len(ms)])

\* matches.sort_by(|a, b| b.0.cmp(&a.0)): stable, newest first
RECURSIVE SortDescending(_)
SortDescending(ms) ==
    IF ms = <<>> THEN <<>>
    ELSE InsertDescending(SortDescending(SubSeq(ms, 1, Len(ms) - 1)), ms[Len(ms)])

fetch_best_match(crate_name, constraint, resp) ==
    IF ~resp.send THEN Err(S_FetchFailed \o crate_name)
    ELSE IF ~IsSuccess(resp.status)
         THEN Err(S_StatusFailed \o StatusDisplay(resp.status))
    ELSE IF resp.body = <<>> THEN Err(S_JsonFailed \o crate_name)
    ELSE LET req_str == IF constraint = S_unspecified THEN S_AnyVersion
                        ELSE constraint
             req     == ParseReq(req_str)
         IN  IF req = <<>>
             THEN Err(S_SemverFailed \o S_SemverError \o S_ConstraintOpen
                        \o constraint \o <<")">>)
             ELSE LET matches == SortDescending(Matches(resp.body[1], req[1]))
                  IN  IF matches # <<>>
                      THEN Ok(FormatVersion(matches[1].v), matches[1].license)
                      ELSE Err(S_NoMatch \o constraint)

----------------------------------------------------------------------------
(* fetch.rs: build_license_report.                                         *)

S_NoLicense ==
    <<"N", "o", " ", "l", "i", "c", "e", "n", "s", "e", " ", "l", "i", "s",
      "t", "e", "d">>

S_unknown == <<"u", "n", "k", "n", "o", "w", "n">>

S_Failed == <<"F", "a", "i", "l", "e", "d", ":", " ">>

\* the task body, broken: the error text is left out of the report
TaskReportWithoutMessage(dep, resp) ==
    LET r == fetch_best_match(dep.name, dep.version_req, resp)
    IN  IF r.ok
        THEN [crate_name |-> dep.name, matched_version |-> r.version,
              license |-> IF r.license = <<>> THEN S_NoLicense
                          ELSE r.license[1]]
        ELSE [crate_name |-> dep.name, matched_version |-> S_unknown,
              license |-> S_Failed]

\* the async block pushed for one dependency: the LicenseReport it yields
TaskReport(dep, resp) ==
    LET r == fetch_best_match(dep.name, dep.version_req, resp)
    IN  IF r.ok
        THEN [crate_name |-> dep.name, matched_version |-> r.version,
              license |-> IF r.license = <<>> THEN S_NoLicense
                          ELSE r.license[1]]
        ELSE [crate_name |-> dep.name, matched_version |-> S_unknown,
              license |-> S_Failed \o r.err]

----------------------------------------------------------------------------
(* check.rs: check_licenses.                                               *)

S_Crate == <<"C", "r", "a", "t", "e", " ", "'">>

S_SubLicense ==
    <<"'", ":", " ", "s", "u", "b", "-", "l", "i", "c", "e", "n", "s", "e",
      " ", "'">>

S_InDeny ==
    <<"'", " ", "i", "s", " ", "i", "n", " ", "t", "h", "e", " ", "d", "e",
      "n", "y", " ", "l", "i", "s", "t", ".">>

S_NotInAllow ==
    <<"'", " ", "i", "s", " ", "N", "O", "T", " ", "i", "n", " ", "t", "h",
      "e", " ", "a", "l", "l", "o", "w", " ", "l", "i", "s", "t", ".">>

S_Found ==
    <<"L", "i", "c", "e", "n", "s", "e", " ", "c", "h", "e", "c", "k", " ",
      "f", "o", "u", "n", "d", " ", "t", "h", "e", "s", "e", " ", "v", "i",
      "o", "l", "a", "t", "i", "o", "n", "s", ":", "\n">>

DenyMessage(crate_name, lic) ==
    S_Crate \o crate_name \o S_SubLicense \o lic \o S_InDeny

AllowMessage(crate_name, lic) ==
    S_Crate \o crate_name \o S_SubLicense \o lic \o S_NotInAllow

\* the deny loop, broken: it stops at the first sub-license found
RECURSIVE DenyFirstOnly(_, _, _)
DenyFirstOnly(crate_name, sub_licenses, denied) ==
    IF sub_licenses = <<>> THEN <<>>
    ELSE IF Head(sub_licenses) \in Range(denied)
         THEN <<DenyMessage(crate_name, Head(sub_licenses))>>
         ELSE DenyFirstOnly(crate_name, Tail(sub_licenses), denied)

\* for lic in &sub_licenses { if deny.contains(lic) { violations.push(..) } }
RECURSIVE DenyViolations(_, _, _)
DenyViolations(crate_name, sub_licenses, denied) ==
    IF sub_licenses = <<>> THEN <<>>
    ELSE (IF Head(sub_licenses) \in Range(denied)
          THEN <<DenyMessage(crate_name, Head(sub_licenses))>>
          ELSE <<>>)
            \o DenyViolations(crate_name, Tail(sub_licenses), denied)

\* the allow loop, broken: one allowed sub-license clears the whole crate
AllowAnyPasses(crate_name, sub_licenses, allowed) ==
    IF \E k \in 1..Len(sub_licenses) : sub_licenses[k] \in Range(allowed)
    THEN <<>>
    ELSE [k \in 1..Len(sub_licenses) |->
            AllowMessage(crate_name, sub_licenses[k])]

\* for lic in &sub_licenses { if !allow.contains(lic) { violations.push(..) } }
RECURSIVE AllowViolations(_, _, _)
AllowViolations(crate_name, sub_licenses, allowed) ==
    IF sub_licenses = <<>> THEN <<>>
    ELSE (IF Head(sub_licenses) \notin Range(allowed)
          THEN <<AllowMessage(crate_name, Head(sub_licenses))>>
          ELSE <<>>)
            \o AllowViolations(crate_name, Tail(sub_licenses), allowed)

\* the loop body, broken: the allow rule is skipped once the deny rule hit
ReportViolationsDenyFirst(r, denied, allowed) ==
    LET sub_licenses == parse_license_expression(r.license)
        hits == IF denied # <<>>
                THEN DenyViolations(r.crate_name, sub_licenses, denied)
                ELSE <<>>
    IN  IF hits # <<>> THEN hits
        ELSE IF allowed # <<>>
             THEN AllowViolations(r.crate_name, sub_licenses, allowed)
             ELSE <<>>

\* the loop body, broken: the report of a failed resolution is not checked
ReportViolationsSkippingUnknown(r, denied, allowed) ==
    IF r.matched_version = S_unknown THEN <<>>
    ELSE LET sub_licenses == parse_license_expression(r.license)
         IN  (IF denied # <<>>
              THEN DenyViolations(r.crate_name, sub_licenses, denied)
              ELSE <<>>)
             \o (IF allowed # <<>>
                 THEN AllowViolations(r.crate_name, sub_licenses, allowed)
                 ELSE <<>>)

\* the body of the loop over the reports: what one report adds
ReportViolations(r, denied, allowed) ==
    LET sub_licenses == parse_license_expression(r.license)
    IN  (IF denied # <<>>
         THEN DenyViolations(r.crate_name, sub_licenses, denied)
         ELSE <<>>)
        \o (IF allowed # <<>>
            THEN AllowViolations(r.crate_name, sub_licenses, allowed)
            ELSE <<>>)

\* the violations vector once the loop over the reports has ended
RECURSIVE Violations(_, _, _)
Violations(reports, denied, allowed) ==
    IF reports = <<>> THEN <<>>
    ELSE ReportViolations(Head(reports), denied, allowed)
            \o Violations(Tail(reports), denied, allowed)

\* [String]::join
RECURSIVE Join(_, _)
Join(ss, sep) ==
    IF ss = <<>> THEN <<>>
    ELSE IF Len(ss) = 1 THEN Head(ss)
    ELSE Head(ss) \o sep \o Join(Tail(ss), sep)

\* check_licenses, broken: the test of the violations vector is inverted
CheckInverted(reports, denied, allowed) ==
    LET found == Violations(reports, denied, allowed)
    IN  IF found = <<>>
        THEN [ok |-> FALSE, err |-> S_Found \o Join(found, <<"\n">>)]
        ELSE [ok |-> TRUE, err |-> <<>>]

\* check_licenses, broken: the violations are collected but never raised
CheckWithoutBail(reports, denied, allowed) ==
    [ok |-> TRUE, err |-> <<>>]

check_licenses(reports, denied, allowed) ==
    LET found == Violations(reports, denied, allowed)
    IN  IF found # <<>>
        THEN [ok |-> FALSE, err |-> S_Found \o Join(found, <<"\n">>)]
        ELSE [ok |-> TRUE, err |-> <<>>]

----------------------------------------------------------------------------
(* A single call of parse_license_expression on a bounded input.           *)

Pieces == {S_MIT, S_GPL, S_OR, S_or, S_AND, S_and, S_BAR,
           <<"(">>, <<")">>, <<" ">>, <<"O", "R">>, <<"o", "r">>}

Ex_MitOrApache == S_MIT \o S_OR \o S_APACHE

Ex_ParenMitAndApache == <<"(">> \o S_MIT \o S_AND \o S_APACHE \o <<")">>

TokInputs ==
    {Flatten(ps) : ps \in SeqsUpTo(Pieces, MaxPieces)}
        \cup {Ex_MitOrApache, Ex_ParenMitAndApache}

InitTok ==
    /\ pc = "tok_call"
    /\ expr \in TokInputs
    /\ deps = <<>> /\ registry = <<>> /\ futures = {}
    /\ results = <<>> /\ built = <<>>
    /\ denyIn = <<>> /\ allowIn = <<>> /\ deny = <<>> /\ allow = <<>>
    /\ violations = <<>> /\ checked = <<>> /\ outcome = <<>>
    /\ tokens = <<>>
    /\ query = <<>> /\ fetched = <<>>

Tokenize ==
    /\ pc = "tok_call"
    /\ tokens' = parse_license_expression(expr)
    /\ pc' = "tok_done"
    /\ UNCHANGED <<deps, registry, futures, results, built, denyIn,
                   allowIn, deny, allow, violations, checked, outcome,
                   expr, query, fetched>>

NextTok == Tokenize

SpecTok == InitTok /\ [][NextTok]_vars

----------------------------------------------------------------------------
(* A single call of fetch_best_match on a bounded registry answer.         *)

V_100 == <<"1", ".", "0", ".", "0">>

V_120 == <<"1", ".", "2", ".", "0">>

V_200 == <<"2", ".", "0", ".", "0">>

V_130a == <<"1", ".", "3", ".", "0", "-", "a">>

V_Unparsable == <<"1", ".", "2">>

R_Caret1 == <<"^", "1">>

R_Exact200 == <<"=", "2", ".", "0", ".", "0">>

R_Tilde12 == <<"~", "1", ".", "2">>

R_GePre == <<">", "=", "1", ".", "3", ".", "0", "-", "a">>

R_Lt120 == <<"<", "1", ".", "2", ".", "0">>

R_Bare3 == <<"3">>

R_Star == <<"*">>

R_Malformed == <<"n", "o", "t", " ", "a", " ", "r", "e", "q">>

CrateNames == {<<"a">>, <<"b">>}

ConstraintStrings ==
    {R_Caret1, R_Exact200, R_Tilde12, R_GePre, R_Lt120, R_Bare3, R_Star,
     R_Malformed, S_unspecified}

\* the entries a registry answer is made of
Entries ==
    [num : {V_100}, license : {<<>>, <<S_MIT>>}]
        \cup [num : {V_Unparsable}, license : {<<>>}]
        \cup [num : {V_120}, license : {<<S_MIT>>, <<S_GPL>>}]
        \cup [num : {V_200}, license : {<<>>, <<S_GPL>>}]
        \cup [num : {V_130a}, license : {<<S_MIT>>}]

FailedResponses ==
    {[send |-> FALSE, status |-> 0, body |-> <<>>],
     [send |-> TRUE, status |-> 404, body |-> <<>>],
     [send |-> TRUE, status |-> 200, body |-> <<>>]}

VersionsResponse(versions) ==
    [send |-> TRUE, status |-> 200, body |-> <<versions>>]

FetchResponses ==
    FailedResponses
        \cup {VersionsResponse(vs) : vs \in SeqsUpTo(Entries, MaxVersions)}

\* the crate name only shows in the errors of a failed request
FetchQueries ==
    [name : CrateNames, constraint : ConstraintStrings, resp : FailedResponses]
        \cup [name : {<<"a">>}, constraint : ConstraintStrings,
              resp : FetchResponses]

InitFetch ==
    /\ pc = "fetch_call"
    /\ query \in FetchQueries
    /\ fetched = <<>>
    /\ deps = <<>> /\ registry = <<>> /\ futures = {}
    /\ results = <<>> /\ built = <<>>
    /\ denyIn = <<>> /\ allowIn = <<>> /\ deny = <<>> /\ allow = <<>>
    /\ violations = <<>> /\ checked = <<>> /\ outcome = <<>>
    /\ expr = <<>> /\ tokens = <<>>

Fetch ==
    /\ pc = "fetch_call"
    /\ fetched' = fetch_best_match(query.name, query.constraint, query.resp)
    /\ pc' = "fetch_done"
    /\ UNCHANGED <<deps, registry, futures, results, built, denyIn,
                   allowIn, deny, allow, violations, checked, outcome,
                   expr, tokens, query>>

NextFetch == Fetch

SpecFetch == InitFetch /\ [][NextFetch]_vars

\* the constraint fetch_best_match hands to VersionReq::parse
ReqText(constraint) ==
    IF constraint = S_unspecified THEN S_AnyVersion ELSE constraint

\* the registry answered with a version list and the constraint parses
Answered(q) ==
    /\ q.resp.send
    /\ IsSuccess(q.resp.status)
    /\ q.resp.body # <<>>
    /\ ParseReq(ReqText(q.constraint)) # <<>>

\* the positions of the published entries that parse and satisfy q's
\* constraint
Satisfying(q) ==
    LET versions == q.resp.body[1]
        req      == ParseReq(ReqText(q.constraint))[1]
    IN  {i \in 1..Len(versions) :
            LET v == ParseVersion(versions[i].num)
            IN  v # <<>> /\ ReqMatches(req, v[1])}

VersionAt(q, i) == ParseVersion(q.resp.body[1][i].num)[1]

\* C3: when the registry call succeeds and some published version parses
\* and satisfies the constraint, fetch_best_match returns Ok with a
\* satisfying entry's version that no satisfying entry exceeds in semver
\* order, and with the license of that very entry; 1.0.0, 1.2.0, 2.0.0
\* under ^1 give 1.2.0.
C3_BestMatchIsMaximum ==
    (pc = "fetch_done" /\ Answered(query) /\ Satisfying(query) # {}) =>
        /\ fetched.ok
        /\ \E i \in Satisfying(query) :
              /\ fetched.version = query.resp.body[1][i].num
              /\ fetched.license = query.resp.body[1][i].license
              /\ \A j \in Satisfying(query) :
                    CompareVersion(VersionAt(query, j), VersionAt(query, i)) <= 0
        /\ ( /\ query.constraint = R_Caret1
             /\ Len(query.resp.body[1]) = 3
             /\ {query.resp.body[1][i].num : i \in 1..3} = {V_100, V_120, V_200} )
            => fetched.version = V_120

\* C3 witness: 2.0.0, 1.0.0 and 1.2.0 were published with different
\* licenses, the constraint is ^1, and 1.2.0 came back with its license.
C3_Witness ==
    /\ pc = "fetch_done"
    /\ query.constraint = R_Caret1
    /\ query.resp = VersionsResponse(<<[num |-> V_200, license |-> <<S_GPL>>],
                                       [num |-> V_100, license |-> <<>>],
                                       [num |-> V_120, license |-> <<S_MIT>>]>>)
    /\ fetched = Ok(V_120, <<S_MIT>>)

\* C4: fetch_best_match fails with the no-match error exactly when the
\* registry answered, the constraint parses, and no published entry both
\* parses as a version and satisfies the constraint; an entry that does not
\* parse never makes the call fail.
C4_NoMatchIffNothingSatisfies ==
    pc = "fetch_done" =>
        /\ (fetched = Err(S_NoMatch \o query.constraint))
              <=> (Answered(query) /\ Satisfying(query) = {})
        /\ (Answered(query) /\ Satisfying(query) # {}) => fetched.ok

\* C4, the mixed case reached: the answer mixes an entry that does not
\* parse with one that satisfies the constraint, and the call succeeded.
C4_MixedAnswerSucceeds ==
    /\ pc = "fetch_done"
    /\ query.constraint = R_Caret1
    /\ query.resp = VersionsResponse(<<[num |-> V_Unparsable, license |-> <<>>],
                                       [num |-> V_100, license |-> <<S_MIT>>]>>)
    /\ fetched = Ok(V_100, <<S_MIT>>)

\* C4 witness: only an entry that does not parse was published, and the
\* call failed with the no-match error.
C4_Witness ==
    /\ pc = "fetch_done"
    /\ query.constraint = R_Star
    /\ query.resp = VersionsResponse(<<[num |-> V_Unparsable, license |-> <<>>]>>)
    /\ fetched = Err(S_NoMatch \o R_Star)

----------------------------------------------------------------------------
(* The check command: the dependencies of the manifest are resolved by     *)
(* build_license_report, whose tasks complete in any order, and the        *)
(* reports are handed to check_licenses.                                   *)

L_GplOrMit == S_GPL \o S_OR \o S_MIT

L_MitAndApache == S_MIT \o S_AND \o S_APACHE

\* a malformed constraint whose text holds a license identifier between
\* two '|' characters
R_QuotesGpl == <<"1">> \o S_BAR \o S_GPL \o S_BAR \o <<"2">>

\* the constraints of the manifest
DepConstraints == {R_Caret1, R_QuotesGpl}

\* parse_cargo_toml hands over Dep values, no (name, version_req) pair twice
DepLists ==
    {ds \in SeqsUpTo([name : CrateNames, version_req : DepConstraints], MaxDeps) :
        \A i, j \in 1..Len(ds) : ds[i] = ds[j] => i = j}

\* what crates.io may answer for one crate
RegistryResponses ==
    FailedResponses \cup
    {VersionsResponse(<<[num |-> V_100, license |-> <<S_MIT>>],
                        [num |-> V_120, license |-> <<L_GplOrMit>>],
                        [num |-> V_200, license |-> <<>>]>>),
     VersionsResponse(<<[num |-> V_Unparsable, license |-> <<S_GPL>>],
                        [num |-> V_100, license |-> <<L_MitAndApache>>]>>),
     VersionsResponse(<<[num |-> V_120, license |-> <<S_MIT>>]>>),
     VersionsResponse(<<[num |-> V_100, license |-> <<>>]>>),
     VersionsResponse(<<[num |-> V_200, license |-> <<S_MIT>>]>>)}

\* the --deny and --allow lists of the command line
Policies ==
    {[deny |-> <<>>, allow |-> <<>>],
     [deny |-> <<S_GPL>>, allow |-> <<>>],
     [deny |-> <<>>, allow |-> <<S_MIT>>],
     [deny |-> <<S_GPL>>, allow |-> <<S_MIT>>],
     [deny |-> <<Ex_MitOrApache, S_GPL>>, allow |-> <<Ex_MitOrApache>>]}

Init ==
    /\ pc = "start"
    /\ deps \in DepLists
    /\ registry \in [CrateNames -> RegistryResponses]
    /\ futures = {}
    /\ results = <<>> /\ built = <<>>
    /\ denyIn = <<>> /\ allowIn = <<>> /\ deny = <<>> /\ allow = <<>>
    /\ violations = <<>> /\ checked = <<>> /\ outcome = <<>>
    /\ expr = <<>> /\ tokens = <<>>
    /\ query = <<>> /\ fetched = <<>>

\* the for loop of build_license_report: one task per dependency is pushed
SpawnTasks ==
    /\ pc = "start"
    /\ futures' = 1..Len(deps)
    /\ pc' = "collect"
    /\ UNCHANGED <<deps, registry, results, built, denyIn, allowIn, deny,
                   allow, violations, checked, outcome, expr, tokens,
                   query, fetched>>

\* broken collection: the report of a failed resolution is not pushed
CollectNextDroppingFailures(i) ==
    /\ pc = "collect"
    /\ i \in futures
    /\ futures' = futures \ {i}
    /\ results' =
          IF fetch_best_match(deps[i].name, deps[i].version_req,
                              registry[deps[i].name]).ok
          THEN Append(results, TaskReport(deps[i], registry[deps[i].name]))
          ELSE results
    /\ UNCHANGED <<pc, deps, registry, built, denyIn, allowIn, deny, allow,
                   violations, checked, outcome, expr, tokens, query,
                   fetched>>

\* broken collection: the report is named after the dependency at the
\* position of the completion, not after the dependency of the task
CollectNextByPosition(i) ==
    /\ pc = "collect"
    /\ i \in futures
    /\ futures' = futures \ {i}
    /\ results' =
          Append(results,
                 [TaskReport(deps[i], registry[deps[i].name])
                     EXCEPT !.crate_name = deps[Len(results) + 1].name])
    /\ UNCHANGED <<pc, deps, registry, built, denyIn, allowIn, deny, allow,
                   violations, checked, outcome, expr, tokens, query,
                   fetched>>

\* one iteration of the while loop: futures.next() yields the report of a
\* task that has completed, whichever it is, and the report is pushed
CollectNext(i) ==
    /\ pc = "collect"
    /\ i \in futures
    /\ futures' = futures \ {i}
    /\ results' = Append(results, TaskReport(deps[i], registry[deps[i].name]))
    /\ UNCHANGED <<pc, deps, registry, built, denyIn, allowIn, deny, allow,
                   violations, checked, outcome, expr, tokens, query,
                   fetched>>

\* futures.next() yields None once no task is left: Ok(results) is returned
ReturnReports ==
    /\ pc = "collect"
    /\ futures = {}
    /\ built' = [ok |-> TRUE, reports |-> results]
    /\ pc' = "built"
    /\ UNCHANGED <<deps, registry, futures, results, denyIn, allowIn, deny,
                   allow, violations, checked, outcome, expr, tokens,
                   query, fetched>>

\* how a run of the program ends
Exit(mode, code, stderr, file) ==
    [mode |-> mode, code |-> code, stderr |-> stderr, file |-> file]

\* the end of check mode: a failed policy check is printed to the error
\* stream and the process exits with code 1, a passed one exits with 0
ExitOfCheck(result) ==
    IF result.ok THEN Exit("check", 0, <<>>, <<>>)
    ELSE Exit("check", 1, result.err, <<>>)

\* the check command: both lists go through expand_user_input, then
\* check_licenses runs on the reports and decides the exit code
CheckCommand ==
    /\ pc = "built"
    /\ \E policy \in Policies :
          /\ denyIn' = policy.deny
          /\ allowIn' = policy.allow
          /\ deny' = expand_user_input(policy.deny)
          /\ allow' = expand_user_input(policy.allow)
          /\ violations' = Violations(built.reports, deny', allow')
          /\ checked' = check_licenses(built.reports, deny', allow')
          /\ outcome' = ExitOfCheck(checked')
    /\ pc' = "checked"
    /\ UNCHANGED <<deps, registry, futures, results, built, expr,
                   tokens, query, fetched>>

\* the report files of the two output formats
OutputPaths ==
    [md |-> <<".", "l", "i", "c", "e", "n", "s", "e", "_", "r", "e", "p",
              "o", "r", "t", ".", "m", "d">>,
     json |-> <<".", "l", "i", "c", "e", "n", "s", "e", "_", "r", "e", "p",
                "o", "r", "t", ".", "j", "s", "o", "n">>]

\* stand-in for the text of the operating system's error
S_IoError == <<"i", "o", " ", "e", "r", "r", "o", "r">>

\* write_markdown / write_json: the file is created and one entry per
\* report is written in the order of the slice; created = FALSE is the
\* failure of File::create
WriteReport(format, reports, created) ==
    IF created
    THEN [ok |-> TRUE, file |-> [path |-> OutputPaths[format],
                                 entries |-> reports]]
    ELSE [ok |-> FALSE, err |-> S_IoError]

\* the generate command: the reports go to the output writer; an error of
\* the writer is returned from main
GenerateCommand ==
    /\ pc = "built"
    /\ \E format \in {"md", "json"}, created \in BOOLEAN :
          LET w == WriteReport(format, built.reports, created)
          IN  outcome' = IF w.ok THEN Exit("generate", 0, <<>>, w.file)
                         ELSE Exit("generate", 1, w.err, <<>>)
    /\ pc' = "written"
    /\ UNCHANGED <<deps, registry, futures, results, built, denyIn,
                   allowIn, deny, allow, violations, checked, expr, tokens,
                   query, fetched>>

Next ==
    \/ SpawnTasks
    \/ \E i \in 1..Len(deps) : CollectNext(i)
    \/ ReturnReports
    \/ CheckCommand
    \/ GenerateCommand

Spec == Init /\ [][Next]_vars

----------------------------------------------------------------------------
(* Reference reading of the tokenizer, used by the properties of C5. The   *)
(* cuts of a text at a pattern are the occurrences of the pattern that no  *)
(* earlier cut overlaps; the pieces of the text are what lies between the  *)
(* cuts; a piece keeps what lies between its first and its last character  *)
(* that is neither whitespace nor a parenthesis.                           *)

Cuts(s, pat) ==
    CHOOSE S \in SUBSET Occurrences(s, pat) :
        \A i \in Occurrences(s, pat) :
            i \in S <=> ~\E j \in S : j < i /\ i < j + Len(pat)

Nth(S, r) == CHOOSE x \in S : Cardinality({y \in S : y < x}) = r - 1

CutAt(s, pat) ==
    LET cuts == Cuts(s, pat)
        k    == Cardinality(cuts)
    IN  [r \in 1..(k + 1) |->
            SubSeq(s,
                   IF r = 1 THEN 1 ELSE Nth(cuts, r - 1) + Len(pat),
                   IF r = k + 1 THEN Len(s) ELSE Nth(cuts, r) - 1)]

RECURSIVE CutAll(_, _)
CutAll(ps, pats) ==
    IF pats = <<>> THEN ps
    ELSE CutAll(Flatten([i \in 1..Len(ps) |-> CutAt(ps[i], Head(pats))]),
                Tail(pats))

Operators == <<S_OR, S_or, S_AND, S_and>>

Core(p) ==
    LET keep == {i \in 1..Len(p) : ~IsTrimChar(p[i])}
    IN  IF keep = {} THEN <<>> ELSE SubSeq(p, SetMin(keep), SetMax(keep))

Cores(ps) == SelectSeq([i \in 1..Len(ps) |-> Core(ps[i])], NonEmpty)

WellTrimmed(t) ==
    /\ t # <<>>
    /\ ~IsTrimChar(t[1])
    /\ ~IsTrimChar(t[Len(t)])

\* C5 (as amended): parse_license_expression returns, in left-to-right
\* order, the pieces obtained by cutting the expression at " OR ", then at
\* " or ", then at " AND ", then at " and ", and at every '|' character the
\* expression itself contains, each piece trimmed of surrounding whitespace
\* and parentheses, empty pieces dropped; no token is empty or starts or
\* ends with whitespace, '(' or ')'; and the four examples of the
\* specification tokenize as stated.
C5_TokensAreTrimmedPieces ==
    pc = "tok_done" =>
        /\ tokens = Cores(CutAll(<<expr>>, Operators \o <<S_BAR>>))
        /\ \A k \in 1..Len(tokens) : WellTrimmed(tokens[k])
        /\ expr = Ex_MitOrApache => tokens = <<S_MIT, S_APACHE>>
        /\ expr = Ex_ParenMitAndApache => tokens = <<S_MIT, S_APACHE>>
        /\ expr = S_MIT => tokens = <<S_MIT>>
        /\ expr = <<>> => tokens = <<>>

\* C5 witness: an expression holding a literal '|' has been tokenized into
\* the two identifiers around it.
C5_Witness ==
    /\ pc = "tok_done"
    /\ expr = S_MIT \o S_BAR \o S_GPL
    /\ tokens = <<S_MIT, S_GPL>>

\* C5 as stated: the tokens are the trimmed non-empty pieces obtained by
\* splitting at the four operators, and at nothing else.
C5_SplitAtOperatorsOnly ==
    pc = "tok_done" => tokens = Cores(CutAll(<<expr>>, Operators))

----------------------------------------------------------------------------
(* Properties of build_license_report.                                     *)

Returned == pc \in {"built", "checked", "written"}

\* what task i asks and is answered
QueryOf(i) ==
    [name |-> deps[i].name, constraint |-> deps[i].version_req,
     resp |-> registry[deps[i].name]]

\* the resolution of dependency i fails: transport failure, non-success
\* status, unparsable body, malformed constraint, or no matching version
ResolutionFails(i) ==
    ~Answered(QueryOf(i)) \/ Satisfying(QueryOf(i)) = {}

\* C1: when build_license_report returns, it returns Ok with as many
\* reports as there are dependencies, whatever resolutions failed: no task
\* is left in the set, and every crate name is reported exactly as often as
\* it is asked for.
C1_OneReportPerDependency ==
    Returned =>
        /\ built.ok
        /\ futures = {}
        /\ Len(built.reports) = Len(deps)
        /\ \A n \in CrateNames :
              Cardinality({k \in 1..Len(built.reports) :
                              built.reports[k].crate_name = n})
                = Cardinality({i \in 1..Len(deps) : deps[i].name = n})

\* C1 witness: two dependencies, the resolution of one of them failed, and
\* the call has returned two reports.
C1_Witness ==
    /\ pc = "built"
    /\ Len(deps) = 2
    /\ ResolutionFails(1) /\ ~ResolutionFails(2)
    /\ Len(built.reports) = 2

\* report rep is the one dependency i is due
ReportOf(i, rep) ==
    /\ rep.crate_name = deps[i].name
    /\ IF ResolutionFails(i)
       THEN /\ rep.matched_version = S_unknown
            /\ HasPrefix(rep.license, S_Failed)
            /\ Len(rep.license) > Len(S_Failed)
       ELSE \E j \in Satisfying(QueryOf(i)) :
              LET cv == QueryOf(i).resp.body[1][j]
              IN  /\ rep.matched_version = cv.num
                  /\ rep.license = IF cv.license = <<>> THEN S_NoLicense
                                   ELSE cv.license[1]

Bijections(n) ==
    {p \in [1..n -> 1..n] : \A i, j \in 1..n : p[i] = p[j] => i = j}

\* C2: a failed resolution is not propagated: the call returns Ok, the
\* failed dependency has a report with matched_version "unknown" and
\* license "Failed: " followed by a non-empty message, and every other
\* dependency has the report of one of its satisfying versions.
C2_FailuresBecomeReports ==
    Returned =>
        /\ built.ok
        /\ \E p \in Bijections(Len(deps)) :
              \A i \in 1..Len(deps) : ReportOf(i, built.reports[p[i]])

\* C2 witness: crate a could not be fetched and crate b resolved; the call
\* returned the failure report of a next to the report of b.
C2_Witness ==
    /\ pc = "built"
    /\ Len(deps) = 2
    /\ deps[1].name = <<"a">> /\ deps[2].name = <<"b">>
    /\ ResolutionFails(1) /\ ~ResolutionFails(2)
    /\ \E k \in 1..2 :
          built.reports[k] =
              [crate_name |-> <<"a">>, matched_version |-> S_unknown,
               license |-> S_Failed \o S_FetchFailed \o <<"a">>]
    /\ \E k \in 1..2 :
          /\ built.reports[k].crate_name = <<"b">>
          /\ built.reports[k].matched_version # S_unknown

----------------------------------------------------------------------------
(* Properties of check_licenses.                                           *)

\* the tokens of every report
RECURSIVE SubLicensesFrom(_)
SubLicensesFrom(k) ==
    IF k > Len(built.reports) THEN <<>>
    ELSE <<parse_license_expression(built.reports[k].license)>>
            \o SubLicensesFrom(k + 1)

SubLicenses == SubLicensesFrom(1)

\* the token occurrences <<report, position>> of all reports
Occs(subs) ==
    UNION {{<<k, t>> : t \in 1..Len(subs[k])} : k \in DOMAIN subs}

\* the occurrences the deny rule is violated by
DenyHits(subs) == {o \in Occs(subs) : subs[o[1]][o[2]] \in Range(deny)}

\* the occurrences the allow rule is violated by
AllowMisses(subs) ==
    {o \in Occs(subs) : allow # <<>> /\ subs[o[1]][o[2]] \notin Range(allow)}

DenyMessageOf(subs, o) ==
    DenyMessage(built.reports[o[1]].crate_name, subs[o[1]][o[2]])

AllowMessageOf(subs, o) ==
    AllowMessage(built.reports[o[1]].crate_name, subs[o[1]][o[2]])

Count(seq, m) == Cardinality({x \in 1..Len(seq) : seq[x] = m})

HasSuffix(s, p) ==
    Len(s) >= Len(p) /\ SubSeq(s, Len(s) - Len(p) + 1, Len(s)) = p

IsDenyMessage(m) == HasSuffix(m, S_InDeny)

IsAllowMessage(m) == HasSuffix(m, S_NotInAllow)

\* C6: the deny messages recorded are exactly those of the token
\* occurrences present in the deny set, one per occurrence; deny
\* ["GPL-3.0"] on a single report "GPL-3.0 OR MIT" records one deny
\* violation, for GPL-3.0.
C6_DenyRule ==
    pc = "checked" =>
        LET subs == SubLicenses
            hits == DenyHits(subs)
        IN  /\ \A o \in hits : DenyMessageOf(subs, o) \in Range(violations)
            /\ \A m \in Range(violations) :
                  IsDenyMessage(m) =>
                      Count(violations, m) =
                          Cardinality({o \in hits : DenyMessageOf(subs, o) = m})
            /\ ( /\ denyIn = <<S_GPL>>
                 /\ Len(built.reports) = 1
                 /\ built.reports[1].license = L_GplOrMit )
                => SelectSeq(violations, IsDenyMessage)
                      = <<DenyMessage(built.reports[1].crate_name, S_GPL)>>

\* C6 witness: deny ["GPL-3.0"], no allow list, one report licensed
\* "GPL-3.0 OR MIT", and the one violation recorded is the GPL-3.0 token.
C6_Witness ==
    /\ pc = "checked"
    /\ denyIn = <<S_GPL>> /\ allowIn = <<>>
    /\ Len(built.reports) = 1
    /\ built.reports[1].license = L_GplOrMit
    /\ violations = <<DenyMessage(built.reports[1].crate_name, S_GPL)>>

\* C7: with a non-empty allow list, the allow messages recorded are exactly
\* those of the token occurrences absent from the allow set, one per
\* occurrence, whatever the other tokens of the license; allow ["MIT"] on
\* "MIT AND Apache-2.0" records a violation for Apache-2.0 and none for MIT.
C7_AllowRule ==
    pc = "checked" =>
        LET subs   == SubLicenses
            misses == AllowMisses(subs)
        IN  /\ \A o \in misses : AllowMessageOf(subs, o) \in Range(violations)
            /\ \A m \in Range(violations) :
                  IsAllowMessage(m) =>
                      Count(violations, m) =
                          Cardinality({o \in misses : AllowMessageOf(subs, o) = m})
            /\ allowIn = <<S_MIT>> =>
                  \A k \in 1..Len(built.reports) :
                      built.reports[k].license = L_MitAndApache =>
                          /\ AllowMessage(built.reports[k].crate_name, S_APACHE)
                                \in Range(violations)
                          /\ AllowMessage(built.reports[k].crate_name, S_MIT)
                                \notin Range(violations)

\* C7 witness: allow ["MIT"], no deny list, one report licensed
\* "MIT AND Apache-2.0", and the one violation recorded is Apache-2.0.
C7_Witness ==
    /\ pc = "checked"
    /\ denyIn = <<>> /\ allowIn = <<S_MIT>>
    /\ Len(built.reports) = 1
    /\ built.reports[1].license = L_MitAndApache
    /\ violations = <<AllowMessage(built.reports[1].crate_name, S_APACHE)>>

\* the tokens of the entries of a user-supplied list, by the reference
\* reading of the tokenizer
UserTokens(list) ==
    UNION {Range(Cores(CutAll(<<list[e]>>, Operators \o <<S_BAR>>))) :
            e \in 1..Len(list)}

\* C8: the deny and allow lists check_licenses matches against are the
\* tokens of the user's entries: a deny entry "MIT OR Apache-2.0" denies
\* MIT and Apache-2.0 each, so a report licensed "MIT" is a deny violation,
\* and an allow entry "MIT OR Apache-2.0" lets a report licensed "MIT" pass
\* the allow rule.
C8_ListsAreTokenized ==
    pc = "checked" =>
        /\ Range(deny) = UserTokens(denyIn)
        /\ Range(allow) = UserTokens(allowIn)
        /\ \A k \in 1..Len(built.reports) :
              built.reports[k].license = S_MIT =>
                  /\ Ex_MitOrApache \in Range(denyIn) =>
                        DenyMessage(built.reports[k].crate_name, S_MIT)
                            \in Range(violations)
                  /\ Ex_MitOrApache \in Range(allowIn) =>
                        AllowMessage(built.reports[k].crate_name, S_MIT)
                            \notin Range(violations)

\* C8 witness: "MIT OR Apache-2.0" is an entry of both lists, a report is
\* licensed "MIT", and it has a deny violation and no allow violation.
C8_Witness ==
    /\ pc = "checked"
    /\ Ex_MitOrApache \in Range(denyIn)
    /\ Ex_MitOrApache \in Range(allowIn)
    /\ \E k \in 1..Len(built.reports) :
          /\ built.reports[k].license = S_MIT
          /\ DenyMessage(built.reports[k].crate_name, S_MIT) \in Range(violations)
          /\ AllowMessage(built.reports[k].crate_name, S_MIT)
                \notin Range(violations)

\* C9: no report and no rule is skipped: the violations are as many as the
\* token occurrences in the deny set plus the token occurrences absent from
\* a non-empty allow set, over all reports, an occurrence that is both
\* counting twice; the message of each is recorded, and the error returned
\* is made of exactly these messages, one per line.
C9_AllViolationsAccumulated ==
    pc = "checked" =>
        LET subs   == SubLicenses
            hits   == DenyHits(subs)
            misses == AllowMisses(subs)
        IN  /\ Len(violations) = Cardinality(hits) + Cardinality(misses)
            /\ \A o \in hits : DenyMessageOf(subs, o) \in Range(violations)
            /\ \A o \in misses : AllowMessageOf(subs, o) \in Range(violations)
            /\ violations # <<>> =>
                  /\ HasPrefix(checked.err, S_Found)
                  /\ Split(SubSeq(checked.err, Len(S_Found) + 1,
                                  Len(checked.err)), "\n") = violations

\* C9 witness: GPL-3.0 is denied and not allowed; the first of two reports
\* has it, with both messages recorded, and the second report has a
\* violation of its own.
C9_Witness ==
    /\ pc = "checked"
    /\ denyIn = <<S_GPL>> /\ allowIn = <<S_MIT>>
    /\ Len(built.reports) = 2
    /\ built.reports[1].crate_name # built.reports[2].crate_name
    /\ built.reports[1].license = L_GplOrMit
    /\ DenyMessage(built.reports[1].crate_name, S_GPL) \in Range(violations)
    /\ AllowMessage(built.reports[1].crate_name, S_GPL) \in Range(violations)
    /\ \E m \in Range(violations) :
          HasPrefix(m, S_Crate \o built.reports[2].crate_name \o S_SubLicense)
    /\ ~checked.ok

\* C10: check_licenses returns an error exactly when the violations vector
\* is not empty; with no deny and no allow entry it returns Ok whatever the
\* reports are.
C10_ErrorIffViolations ==
    pc = "checked" =>
        /\ checked.ok <=> violations = <<>>
        /\ (deny = <<>> /\ allow = <<>>) => checked.ok
        /\ (denyIn = <<>> /\ allowIn = <<>>) => checked.ok

\* C10 witness: neither list was given, one of the two reports is that of a
\* failed resolution, and the check returned Ok.
C10_Witness ==
    /\ pc = "checked"
    /\ denyIn = <<>> /\ allowIn = <<>>
    /\ Len(built.reports) = 2
    /\ built.reports[1].matched_version = S_unknown
    /\ built.reports[2].license = L_GplOrMit
    /\ checked.ok

----------------------------------------------------------------------------
(* Properties of the entry point.                                          *)

\* the policy is violated: a token of a report is denied, or an allow list
\* was given and a token of a report is missing from it
PolicyFails(subs) == DenyHits(subs) # {} \/ AllowMisses(subs) # {}

----------------------------------------------------------------------------
(* Properties of the concurrent collection.                                *)

\* the tasks that have been yielded
Completed == (1..Len(deps)) \ futures

\* the report dependency i is due, from its own name, its own constraint
\* and the registry's answer to its own request
ExpectedReport(i) ==
    LET r == fetch_best_match(deps[i].name, deps[i].version_req,
                              registry[deps[i].name])
    IN  [crate_name      |-> deps[i].name,
         matched_version |-> IF r.ok THEN r.version ELSE S_unknown,
         license         |-> IF ~r.ok THEN S_Failed \o r.err
                             ELSE IF r.license = <<>> THEN S_NoLicense
                             ELSE r.license[1]]

\* the reports due to dependencies i, i + 1, ..., in the order of deps
RECURSIVE ExpectedFrom(_)
ExpectedFrom(i) ==
    IF i > Len(deps) THEN <<>>
    ELSE <<ExpectedReport(i)>> \o ExpectedFrom(i + 1)

\* C12: at every point of the collection and for every order in which the
\* tasks complete, the reports collected are, as a multiset, the reports
\* due to the tasks completed so far: each report carries the name of the
\* dependency whose own registry answer gave its version and license,
\* whatever its position, and depends on nothing another task did; what is
\* returned is the multiset of the reports due to all dependencies, which
\* the dependencies and the registry's answers alone determine.
C12_IdentityTravelsWithTask ==
    pc \in {"collect", "built", "checked", "written"} =>
        LET due == ExpectedFrom(1)
        IN  /\ Len(results) = Cardinality(Completed)
            /\ \A k \in 1..Len(results) :
                  Count(results, results[k]) =
                      Cardinality({i \in Completed : due[i] = results[k]})
            /\ Returned =>
                  /\ Completed = 1..Len(deps)
                  /\ built.reports = results

\* C12 witness: two dependencies of different crates, one resolved and one
\* failed, completed in the reverse of the input order; the first report
\* returned is the one due to the second dependency.
C12_Witness ==
    /\ pc = "built"
    /\ Len(deps) = 2
    /\ deps[1].name # deps[2].name
    /\ ResolutionFails(1) /\ ~ResolutionFails(2)
    /\ built.reports = <<ExpectedReport(2), ExpectedReport(1)>>
    /\ built.reports[1].crate_name = deps[2].name
    /\ built.reports[1].matched_version # S_unknown
    /\ built.reports[2].matched_version = S_unknown

----------------------------------------------------------------------------
(* Properties of the policy check on reports without a license.            *)

\* report k is that of a failed resolution
IsFailedReport(k) == built.reports[k].matched_version = S_unknown

\* report k is that of a registry entry without a license
IsUnlicensedReport(k) == built.reports[k].license = S_NoLicense

\* the head of every violation message about the crate of report k
CratePrefix(k) == S_Crate \o built.reports[k].crate_name \o S_SubLicense

\* the violations recorded about the crate named as report k is
AboutCrate(k) ==
    {x \in 1..Len(violations) : HasPrefix(violations[x], CratePrefix(k))}

\* the reports that carry the crate name of report k
Namesakes(k) ==
    {j \in 1..Len(built.reports) :
        built.reports[j].crate_name = built.reports[k].crate_name}

\* the pieces of a text set off by an operator or a '|'
SetOffPieces(text) == Range(Cores(CutAll(<<text>>, Operators \o <<S_BAR>>)))

\* the pieces each constraint of the manifest holds
PiecesOfConstraint == [c \in DepConstraints |-> SetOffPieces(c)]

\* the denied identifiers that the manifest's constraints for the crate of
\* report k hold as a piece of their own; a failure message quotes the
\* constraint
QuotedDenied(k) ==
    {d \in Range(deny) :
        \E i \in 1..Len(deps) :
            /\ deps[i].name = built.reports[k].crate_name
            /\ d \in PiecesOfConstraint[deps[i].version_req]}

\* C13 (as amended): a report of a failed resolution or of an entry without
\* a license is checked like any other.  With a non-empty allow list of
\* license identifiers an allow violation about its first token is recorded
\* for its crate.  With an empty allow list and a deny list of license
\* identifiers, a "No license listed" report yields no violation, and a
\* failed report yields violations only for denied identifiers that the
\* failure text itself quotes as a piece set off by '|' or an operator (the
\* text quotes the constraint); where the constraint holds none, nothing
\* is recorded for the report, and a crate that has only such reports has
\* no violation at all.
C13_UnlicensedReportsAreChecked ==
    pc = "checked" =>
        \A k \in 1..Len(built.reports) :
            (IsFailedReport(k) \/ IsUnlicensedReport(k)) =>
                LET toks == parse_license_expression(built.reports[k].license)
                IN  /\ toks # <<>>
                    /\ allow # <<>> =>
                          /\ toks[1] \notin Range(allow)
                          /\ AllowMessage(built.reports[k].crate_name, toks[1])
                                \in Range(violations)
                    /\ allow = <<>> =>
                          /\ \A t \in 1..Len(toks) :
                                toks[t] \in Range(deny) =>
                                    /\ IsFailedReport(k)
                                    /\ toks[t] \in QuotedDenied(k)
                          /\ \A d \in Range(deny) :
                                DenyMessage(built.reports[k].crate_name, d)
                                      \in Range(violations) =>
                                    \/ d \in QuotedDenied(k)
                                    \/ \E j \in Namesakes(k) :
                                          ~IsFailedReport(j)
                                             /\ ~IsUnlicensedReport(j)
                          /\ ( /\ \A j \in Namesakes(k) :
                                     IsFailedReport(j)
                                        \/ IsUnlicensedReport(j)
                               /\ QuotedDenied(k) = {} )
                                => AboutCrate(k) = {}

\* C13 witness: allow ["MIT"] and no deny list; of the two reports one is
\* that of a failed request and one that of an entry without a license,
\* and an allow violation is recorded for each of the two crates.
C13_Witness ==
    /\ pc = "checked"
    /\ denyIn = <<>> /\ allowIn = <<S_MIT>>
    /\ Len(built.reports) = 2
    /\ IsFailedReport(1) /\ IsUnlicensedReport(2)
    /\ built.reports[1].crate_name # built.reports[2].crate_name
    /\ violations =
          <<AllowMessage(built.reports[1].crate_name,
                         built.reports[1].license),
            AllowMessage(built.reports[2].crate_name, S_NoLicense)>>
    /\ ~checked.ok

\* C13 as stated: with an empty allow list and a deny list of license
\* identifiers, no violation is recorded for a report of a failed
\* resolution or of an entry without a license, and with a non-empty allow
\* list at least one allow violation is recorded for its crate.
C13_FailedLookupPassesDenyOnly ==
    pc = "checked" =>
        LET subs == SubLicenses
        IN  \A k \in 1..Len(built.reports) :
                (IsFailedReport(k) \/ IsUnlicensedReport(k)) =>
                    /\ allow # <<>> =>
                          \E x \in AboutCrate(k) :
                              IsAllowMessage(violations[x])
                    /\ allow = <<>> =>
                          /\ \A o \in DenyHits(subs) : o[1] # k
                          /\ (\A j \in Namesakes(k) :
                                 IsFailedReport(j) \/ IsUnlicensedReport(j))
                                => AboutCrate(k) = {}

====
